---- MODULE Spec2Model ----
(***************************************************************************)
(* Model of melon-chart-bot: the text normalizer, the title/artist matcher *)
(* of the melon and genie crawlers, the rank-movement classifier and the   *)
(* run of main() over the history files.                                   *)
(*                                                                         *)
(* Text is a sequence of one-character strings.  An Optional[int] is the   *)
(* empty sequence (None) or a one-element sequence <<n>>.                  *)
(***************************************************************************)
EXTENDS Integers, Sequences, FiniteSets, TLC

VARIABLES
    pc,            \* position of the modelled call or of main()
    arg,           \* pure-function harness: the arguments of the call
    ret,           \* pure-function harness: the value returned
    files,         \* HISTORY_FILES: platform -> content of the file on disk
    startFiles,    \* content of the history files when the current run started
    targets,       \* main: targets, the configured targets of this run
    melon_items,   \* main: melon_items
    genie_items,   \* main: genie_items
    yt_rows,       \* main: yt_rows, keys with a view count
    prev_map,      \* main: melon_prev_map / genie_prev_map (as loaded)
    had_file,      \* main: melon_had_file / genie_had_file
    curr_map,      \* main: melon_curr_map / genie_curr_map / yt_curr_map
    idx,           \* main: position of the loop over targets
    results,       \* main: per processed target, platform -> rank, prev, label
    fetched,       \* observer: platform -> number of chart fetches in this run
    saved,         \* observer: platform -> number of _save_curr calls in this run
    posted,        \* observer: outcome of slack_post in this run
    lastRun,       \* observer: per platform, the matcher results of the latest completed run
    story,         \* observer: movements of the tracked target over consecutive completed runs
    everFound,     \* observer: keys a saved melon history ever held a real rank for
    raised         \* observer: the call of this run that raised, or "none"

pureVars == <<arg, ret>>

runVars == <<files, startFiles, targets, melon_items, genie_items, yt_rows,
             prev_map, had_file, curr_map, idx, results, fetched, saved,
             posted, lastRun, story, everFound, raised>>

vars == <<pc, arg, ret, files, startFiles, targets, melon_items, genie_items,
          yt_rows, prev_map, had_file, curr_map, idx, results, fetched, saved,
          posted, lastRun, story, everFound, raised>>

(***************************************************************************)
(* Optional values                                                         *)
(***************************************************************************)
None == <<>>

Some(n) == <<n>>

IsNone(o) == Len(o) = 0

Val(o) == o[1]

(***************************************************************************)
(* Text                                                                    *)
(***************************************************************************)
\* str.isspace / the regex class \s
IsSpace(c) == c = " "

\* the regex class [\s\-\(\)\[\]\{\}/\\]
IsSeparator(c) == c \in {" ", "-", "(", ")", "[", "]", "{", "}", "/", "\\"}

LowerChar(c) == CASE c = "A" -> "a" [] c = "B" -> "b" [] c = "X" -> "x" [] OTHER -> c

\* str.lower
Lower(s) == [i \in 1..Len(s) |-> LowerChar(s[i])]

RECURSIVE LStrip(_)
LStrip(s) == IF Len(s) > 0 /\ IsSpace(s[1]) THEN LStrip(Tail(s)) ELSE s

RECURSIVE RStrip(_)
RStrip(s) == IF Len(s) > 0 /\ IsSpace(s[Len(s)]) THEN RStrip(SubSeq(s, 1, Len(s) - 1)) ELSE s

\* str.strip
Strip(s) == RStrip(LStrip(s))

\* re.sub(r"[\s\-\(\)\[\]\{\}/\\]+", " ", s): each maximal run of separator
\* characters becomes one space
RECURSIVE SubSeparatorsFrom(_, _)
SubSeparatorsFrom(s, i) ==
    IF i > Len(s) THEN <<>>
    ELSE IF IsSeparator(s[i])
         THEN (IF i > 1 /\ IsSeparator(s[i - 1]) THEN <<>> ELSE <<" ">>)
              \o SubSeparatorsFrom(s, i + 1)
         ELSE <<s[i]>> \o SubSeparatorsFrom(s, i + 1)

SubSeparators(s) == SubSeparatorsFrom(s, 1)

\* re.sub(r"\s+", " ", s): each maximal run of whitespace becomes one space
RECURSIVE SubSpacesFrom(_, _)
SubSpacesFrom(s, i) ==
    IF i > Len(s) THEN <<>>
    ELSE IF IsSpace(s[i])
         THEN (IF i > 1 /\ IsSpace(s[i - 1]) THEN <<>> ELSE <<" ">>)
              \o SubSpacesFrom(s, i + 1)
         ELSE <<s[i]>> \o SubSpacesFrom(s, i + 1)

SubSpaces(s) == SubSpacesFrom(s, 1)

\* a mutant of norm: trims once more after the substitutions
NormTrimmed(s) == Strip(SubSpaces(SubSeparators(Strip(Lower(s)))))

\* common.norm
norm(s) == SubSpaces(SubSeparators(Strip(Lower(s))))

\* crawler_melon.find_rank_by_title_artist_with_alias._norm
melon_norm(s) == SubSpaces(SubSeparators(Strip(Lower(s))))

\* crawler_genie.find_rank_by_title_artist_with_alias._norm
genie_norm(s) == SubSpaces(SubSeparators(Strip(Lower(s))))

\* Python's  q in t  on strings
Contains(t, q) == \E i \in 0..(Len(t) - Len(q)) : SubSeq(t, i + 1, i + Len(q)) = q

\* truthiness of a str
Truthy(s) == Len(s) > 0

\* [f(x) for x in xs if x]
RECURSIVE NonEmptyOnly(_)
NonEmptyOnly(xs) ==
    IF Len(xs) = 0 THEN <<>>
    ELSE (IF Truthy(Head(xs)) THEN <<Head(xs)>> ELSE <<>>) \o NonEmptyOnly(Tail(xs))

Range(f) == {f[i] : i \in DOMAIN f}

(***************************************************************************)
(* The matcher (crawler_melon.py and its copy in crawler_genie.py)         *)
(***************************************************************************)
\* q_titles = [title] + (title_aliases or [])
QTitles(title, title_aliases) == <<title>> \o title_aliases

\* q_artists = ([artist] if artist else []) + (artist_aliases or [])
QArtists(artist, artist_aliases) ==
    (IF Truthy(artist) THEN <<artist>> ELSE <<>>) \o artist_aliases

\* the loop of crawler_melon.find_rank_by_title_artist_with_alias from row i on
RECURSIVE melon_scan(_, _, _, _)
melon_scan(items, i, q_titles_n, q_artists_n) ==
    IF i > Len(items) THEN None
    ELSE LET item == items[i]
             t == melon_norm(item.title)
             a_list == [k \in 1..Len(item.artists) |-> melon_norm(item.artists[k])]
             title_match == \E j \in 1..Len(q_titles_n) :
                                Contains(t, q_titles_n[j]) \/ Contains(q_titles_n[j], t)
             artist_match ==
                 IF Len(q_artists_n) > 0
                 THEN \E j \in 1..Len(q_artists_n) : \E k \in 1..Len(a_list) :
                          Contains(a_list[k], q_artists_n[j]) \/ Contains(q_artists_n[j], a_list[k])
                 ELSE TRUE
         IN  IF title_match /\ artist_match THEN Some(item.rank)
             ELSE melon_scan(items, i + 1, q_titles_n, q_artists_n)

\* a mutant of the melon matcher: keeps the last qualifying row
RECURSIVE MelonLastMatch(_, _, _, _, _)
MelonLastMatch(items, title, artist, title_aliases, artist_aliases) ==
    IF Len(items) = 0 THEN None
    ELSE LET n == Len(items)
             q_titles_n == [j \in 1..Len(NonEmptyOnly(QTitles(title, title_aliases))) |->
                               melon_norm(NonEmptyOnly(QTitles(title, title_aliases))[j])]
             q_artists_n == [j \in 1..Len(NonEmptyOnly(QArtists(artist, artist_aliases))) |->
                                melon_norm(NonEmptyOnly(QArtists(artist, artist_aliases))[j])]
             last == melon_scan(<<items[n]>>, 1, q_titles_n, q_artists_n)
         IN  IF ~IsNone(last) THEN last
             ELSE MelonLastMatch(SubSeq(items, 1, n - 1), title, artist,
                                 title_aliases, artist_aliases)

\* crawler_melon.find_rank_by_title_artist_with_alias
find_melon_rank(items, title, artist, title_aliases, artist_aliases) ==
    LET q_titles == NonEmptyOnly(QTitles(title, title_aliases))
        q_artists == NonEmptyOnly(QArtists(artist, artist_aliases))
        q_titles_n == [j \in 1..Len(q_titles) |-> melon_norm(q_titles[j])]
        q_artists_n == [j \in 1..Len(q_artists) |-> melon_norm(q_artists[j])]
    IN  melon_scan(items, 1, q_titles_n, q_artists_n)

\* the loop of crawler_genie.find_rank_by_title_artist_with_alias from row i on
RECURSIVE genie_scan(_, _, _, _)
genie_scan(items, i, q_titles_n, q_artists_n) ==
    IF i > Len(items) THEN None
    ELSE LET item == items[i]
             t == genie_norm(item.title)
             a_list == [k \in 1..Len(item.artists) |-> genie_norm(item.artists[k])]
             title_match == \E j \in 1..Len(q_titles_n) :
                                Contains(t, q_titles_n[j]) \/ Contains(q_titles_n[j], t)
             artist_match ==
                 IF Len(q_artists_n) > 0
                 THEN \E j \in 1..Len(q_artists_n) : \E k \in 1..Len(a_list) :
                          Contains(a_list[k], q_artists_n[j]) \/ Contains(q_artists_n[j], a_list[k])
                 ELSE TRUE
         IN  IF title_match /\ artist_match THEN Some(item.rank)
             ELSE genie_scan(items, i + 1, q_titles_n, q_artists_n)

\* crawler_genie.find_rank_by_title_artist_with_alias
find_genie_rank(items, title, artist, title_aliases, artist_aliases) ==
    LET q_titles == NonEmptyOnly(QTitles(title, title_aliases))
        q_artists == NonEmptyOnly(QArtists(artist, artist_aliases))
        q_titles_n == [j \in 1..Len(q_titles) |-> genie_norm(q_titles[j])]
        q_artists_n == [j \in 1..Len(q_artists) |-> genie_norm(q_artists[j])]
    IN  genie_scan(items, 1, q_titles_n, q_artists_n)

\* crawler_melon.find_rank_by_title_artist.norm
melon_plain_norm(s) == SubSpaces(SubSeparators(Strip(Lower(s))))

\* crawler_genie.find_rank_by_title_artist._norm
genie_plain_norm(s) == SubSpaces(SubSeparators(Strip(Lower(s))))

\* the loop of crawler_melon.find_rank_by_title_artist from row i on;
\* filtering is the truthiness of q_artist, None or the normalized artist
RECURSIVE melon_plain_scan(_, _, _, _, _)
melon_plain_scan(items, i, q_title, filtering, q_artist) ==
    IF i > Len(items) THEN None
    ELSE LET item == items[i]
             t == melon_plain_norm(item.title)
             a_list == [k \in 1..Len(item.artists) |-> melon_plain_norm(item.artists[k])]
             title_match == Contains(t, q_title) \/ Contains(q_title, t)
             artist_match ==
                 IF filtering
                 THEN \E k \in 1..Len(a_list) :
                          Contains(a_list[k], q_artist) \/ Contains(q_artist, a_list[k])
                 ELSE TRUE
         IN  IF title_match /\ artist_match THEN Some(item.rank)
             ELSE melon_plain_scan(items, i + 1, q_title, filtering, q_artist)

\* crawler_melon.find_rank_by_title_artist
melon_find_rank_by_title_artist(items, title, artist) ==
    LET q_title == melon_plain_norm(title)
        q_artist == IF Truthy(artist) THEN melon_plain_norm(artist) ELSE <<>>
    IN  melon_plain_scan(items, 1, q_title, Truthy(q_artist), q_artist)

\* the loop of crawler_genie.find_rank_by_title_artist from row i on
RECURSIVE genie_plain_scan(_, _, _, _, _)
genie_plain_scan(items, i, q_title, filtering, q_artist) ==
    IF i > Len(items) THEN None
    ELSE LET item == items[i]
             t == genie_plain_norm(item.title)
             a_list == [k \in 1..Len(item.artists) |-> genie_plain_norm(item.artists[k])]
             title_ok == Contains(t, q_title) \/ Contains(q_title, t)
             artist_ok ==
                 IF filtering
                 THEN \E k \in 1..Len(a_list) :
                          Contains(a_list[k], q_artist) \/ Contains(q_artist, a_list[k])
                 ELSE TRUE
         IN  IF title_ok /\ artist_ok THEN Some(item.rank)
             ELSE genie_plain_scan(items, i + 1, q_title, filtering, q_artist)

\* crawler_genie.find_rank_by_title_artist
genie_find_rank_by_title_artist(items, title, artist) ==
    LET q_title == genie_plain_norm(title)
        q_artist == IF Truthy(artist) THEN genie_plain_norm(artist) ELSE <<>>
    IN  genie_plain_scan(items, 1, q_title, Truthy(q_artist), q_artist)

(***************************************************************************)
(* The movement classifier (main.change_emoji)                             *)
(***************************************************************************)
Movements == {"ABSENT", "FIRST_ENTRY", "REENTRY", "RISEN", "FALLEN", "UNCHANGED"}

\* a mutant of change_emoji: compares the ranks the wrong way round
ChangeEmojiSwapped(prev, curr, had_history_file) ==
    IF IsNone(curr) THEN "ABSENT"
    ELSE IF IsNone(prev) THEN (IF had_history_file THEN "REENTRY" ELSE "FIRST_ENTRY")
    ELSE IF Val(curr) > Val(prev) THEN "RISEN"
    ELSE IF Val(curr) < Val(prev) THEN "FALLEN"
    ELSE "UNCHANGED"

\* a mutant of change_emoji: looks at the previous rank first
ChangeEmojiPrevFirst(prev, curr, had_history_file) ==
    IF IsNone(prev) THEN (IF had_history_file THEN "REENTRY" ELSE "FIRST_ENTRY")
    ELSE IF IsNone(curr) THEN "ABSENT"
    ELSE IF Val(curr) < Val(prev) THEN "RISEN"
    ELSE IF Val(curr) > Val(prev) THEN "FALLEN"
    ELSE "UNCHANGED"

\* main.change_emoji; the emoji/label pair is named by its movement
change_emoji(prev, curr, had_history_file) ==
    IF IsNone(curr) THEN "ABSENT"
    ELSE IF IsNone(prev) THEN (IF had_history_file THEN "REENTRY" ELSE "FIRST_ENTRY")
    ELSE IF Val(curr) < Val(prev) THEN "RISEN"
    ELSE IF Val(curr) > Val(prev) THEN "FALLEN"
    ELSE "UNCHANGED"

(***************************************************************************)
(* State of main() outside a run, shared by every specification            *)
(***************************************************************************)
Platforms == {"melon", "genie"}

Stores == {"melon", "genie", "youtube"}

\* content of a history file: absent, text json.load rejects, or a JSON value
NoFile == [kind |-> "nofile"]

CorruptFile == [kind |-> "text"]

JsonList == [kind |-> "list"]

JsonObject(m) == [kind |-> "object", map |-> m]

EmptyMap == <<>>

NoRun ==
    /\ targets = <<>>
    /\ melon_items = <<>>
    /\ genie_items = <<>>
    /\ yt_rows = {}
    /\ prev_map = [p \in Platforms |-> JsonObject(EmptyMap)]
    /\ had_file = [p \in Platforms |-> FALSE]
    /\ curr_map = [p \in Stores |-> EmptyMap]
    /\ idx = 0
    /\ results = <<>>
    /\ fetched = [p \in Platforms |-> 0]
    /\ saved = [p \in Stores |-> 0]
    /\ posted = "no"
    /\ raised = "none"

NoHistory ==
    /\ files = [p \in Stores |-> NoFile]
    /\ startFiles = [p \in Stores |-> NoFile]
    /\ lastRun = [p \in Platforms |-> [byTarget |-> <<>>, byKey |-> <<>>]]
    /\ story = <<>>
    /\ everFound = {}

(***************************************************************************)
(* Specification of the classifier: every call of change_emoji             *)
(***************************************************************************)
MaxRank == 7

OptRanks == {None} \cup {Some(r) : r \in 1..MaxRank}

InitClassify ==
    /\ pc = "call"
    /\ arg \in [prev : OptRanks, curr : OptRanks, had_history_file : BOOLEAN]
    /\ ret = None
    /\ NoRun /\ NoHistory

ClassifyCall ==
    /\ pc = "call"
    /\ ret' = change_emoji(arg.prev, arg.curr, arg.had_history_file)
    /\ pc' = "done"
    /\ UNCHANGED <<arg, runVars>>

NextClassify == ClassifyCall

SpecClassify == InitClassify /\ [][NextClassify]_vars

(***************************************************************************)
(* Specification of the normalizer: every call of norm on a short text     *)
(***************************************************************************)
MaxLen == 3

Chars == {"a", "A", " ", "-", "("}

Texts == UNION {[1..n -> Chars] : n \in 0..MaxLen}

InitNorm ==
    /\ pc = "call"
    /\ arg \in Texts
    /\ ret = None
    /\ NoRun /\ NoHistory

NormCall ==
    /\ pc = "call"
    /\ ret' = [common |-> norm(arg), common2 |-> norm(norm(arg)),
               melon |-> melon_norm(arg), melon2 |-> melon_norm(melon_norm(arg)),
               genie |-> genie_norm(arg), genie2 |-> genie_norm(genie_norm(arg))]
    /\ pc' = "done"
    /\ UNCHANGED <<arg, runVars>>

NextNorm == NormCall

SpecNorm == InitNorm /\ [][NextNorm]_vars

(***************************************************************************)
(* Specification of the matcher: every call on a small chart               *)
(***************************************************************************)
\* number of chart positions; a chart holds at most one row per position and
\* is sorted by rank, as parse_hot100 and get_genie_top200_items return it
MaxRows == 2

RowTitles == {<<"a">>, <<"a", "b">>, <<"-">>}

RowArtists == {<<>>, <<<<"x">>>>, <<<<"y">>, <<"x">>>>}

TargetTitles == {<<>>, <<" ">>, <<"a">>, <<"A", "b">>, <<"b">>}

TitleAliasLists == {<<>>, <<<<" ">>>>, <<<<"a", "b">>>>, <<<<>>, <<"b">>>>}

TargetArtists == {<<>>, <<" ">>, <<"x">>, <<"y">>}

ArtistAliasLists == {<<>>, <<<<" ">>>>, <<<<"X">>>>}

NoRow == [rank |-> 0, title |-> <<>>, artists |-> <<>>]

\* the rows of a chart in rank order; slot[r] is the row at rank r or NoRow
RECURSIVE ChartFrom(_, _, _)
ChartFrom(slot, r, n) ==
    IF r > n THEN <<>>
    ELSE (IF slot[r] = NoRow THEN <<>> ELSE <<slot[r]>>) \o ChartFrom(slot, r + 1, n)

RowsAt(r) == {[rank |-> r, title |-> t, artists |-> a] : t \in RowTitles, a \in RowArtists}

Charts == {ChartFrom(slot, 1, MaxRows) :
              slot \in {f \in [1..MaxRows -> UNION {RowsAt(r) : r \in 1..MaxRows} \cup {NoRow}] :
                           \A r \in 1..MaxRows : f[r] = NoRow \/ f[r].rank = r}}

InitMatch ==
    /\ pc = "call"
    /\ arg \in [items : Charts, title : TargetTitles, artist : TargetArtists,
                title_aliases : TitleAliasLists, artist_aliases : ArtistAliasLists]
    /\ ret = None
    /\ NoRun /\ NoHistory

MatchCall ==
    /\ pc = "call"
    /\ ret' = [melon |-> find_melon_rank(arg.items, arg.title, arg.artist,
                                          arg.title_aliases, arg.artist_aliases),
               genie |-> find_genie_rank(arg.items, arg.title, arg.artist,
                                          arg.title_aliases, arg.artist_aliases),
               melon_plain |-> melon_find_rank_by_title_artist(arg.items, arg.title, arg.artist),
               genie_plain |-> genie_find_rank_by_title_artist(arg.items, arg.title, arg.artist)]
    /\ pc' = "done"
    /\ UNCHANGED <<arg, runVars>>

NextMatch == MatchCall

SpecMatch == InitMatch /\ [][NextMatch]_vars

(***************************************************************************)
(* The run of main() over the history files                                *)
(***************************************************************************)
\* a JSON number and a JSON string as values of a history object
JInt(n) == [t |-> "int", n |-> n]

JStr == [t |-> "str", n |-> 0]

\* the value dict.get returns for a missing key
PyNone == [t |-> "none", n |-> 0]

\* main._result_key: f"{title}@@{artist}".lower().strip()
result_key(title, artist) == Strip(Lower(title \o <<"@", "@">> \o artist))

Key(t) == result_key(t.title, t.artist)

\* a mutant of _load_prev: a file json.load rejects is an error of the run
LoadPrevStrict(file) == IF file.kind = "nofile" THEN JsonObject(EmptyMap) ELSE file

\* main._load_prev: {} without a file or when json.load raises, else whatever
\* json.load returns
load_prev(file) ==
    IF file.kind = "nofile" THEN JsonObject(EmptyMap)
    ELSE IF file.kind = "text" THEN JsonObject(EmptyMap)
    ELSE file

\* a mutant of the file-existed flag: only a file that parses counts
ExistsAndParses(file) == file.kind \notin {"nofile", "text"}

\* Path.exists
Exists(file) == file.kind # "nofile"

\* a mutant of _save_curr: merges the mapping into the object on disk
SaveCurrMerge(file, mapping) ==
    IF file.kind = "object"
    THEN JsonObject([k \in DOMAIN mapping \cup DOMAIN file.map |->
                        IF k \in DOMAIN mapping THEN mapping[k] ELSE file.map[k]])
    ELSE JsonObject(mapping)

\* main._save_curr: the file is opened with "w" and holds the mapping alone
save_curr(file, mapping) == JsonObject(mapping)

\* a mutant of the platform filter: every target counts for every platform
AllTargets(ts, p) == ts

\* main: melon_targets / genie_targets
PlatformTargets(ts, p) == SelectSeq(ts, LAMBDA t : p \in t.platforms)

\* the matcher main imports for the platform
FindRank(p, items, t) ==
    IF p = "melon"
    THEN find_melon_rank(items, t.title, t.artist, t.title_aliases, t.artist_aliases)
    ELSE find_genie_rank(items, t.title, t.artist, t.title_aliases, t.artist_aliases)

\* a mutant of the encoding: an absent rank is stored as 0
EncodeRankZero(rank) == IF IsNone(rank) THEN JInt(0) ELSE JInt(Val(rank))

\* main: melon_rank if melon_rank is not None else -1
EncodeRank(rank) == IF IsNone(rank) THEN JInt(0 - 1) ELSE JInt(Val(rank))

\* main: prev = prev_map.get(key); if prev == -1: prev = None
DecodePrev(map, key) ==
    LET prev == IF key \in DOMAIN map THEN map[key] ELSE PyNone
    IN  IF prev.t = "int" /\ prev.n = 0 - 1 THEN PyNone ELSE prev

\* main, lines 115-127 and 135-147: the block of one platform for one target.
\* prev_map.get raises AttributeError when json.load returned a list, and
\* change_emoji raises TypeError when it compares a rank with a stored string.
PlatformBlock(p, t, items, loaded, had) ==
    LET rank == FindRank(p, items, t)
    IN  IF loaded.kind # "object"
        THEN [raised |-> TRUE, rank |-> rank, prev |-> None, label |-> "none"]
        ELSE LET prev == DecodePrev(loaded.map, Key(t))
             IN  IF prev.t = "str" /\ ~IsNone(rank)
                 THEN [raised |-> TRUE, rank |-> rank, prev |-> None, label |-> "none"]
                 ELSE LET prevOpt == IF prev.t = "int" THEN Some(prev.n) ELSE None
                      IN  [raised |-> FALSE, rank |-> rank, prev |-> prevOpt,
                           label |-> change_emoji(prevOpt, rank, had)]

NotDeclared == [raised |-> FALSE, rank |-> None, prev |-> None, label |-> "none"]

(***************************************************************************)
(* Inputs of a run: config/songs.json, the charts, the files found on disk *)
(***************************************************************************)
MaxTargets == 2

Song(title, artist, title_aliases, platforms, youtube) ==
    [title |-> title, artist |-> artist, title_aliases |-> title_aliases,
     artist_aliases |-> <<>>, platforms |-> platforms, youtube |-> youtube]

\* entries config/songs.json may hold; the second has the key of the first
ConfigTargets ==
    { Song(<<"a">>, <<"x">>, <<>>, {"melon", "genie"}, FALSE),
      Song(<<"A">>, <<"x">>, <<<<"b">>>>, {"melon"}, TRUE),
      Song(<<"b">>, <<"x">>, <<>>, {"genie"}, FALSE) }

\* a configuration lists at most MaxTargets of them, each once, in any order
Configs ==
    UNION {{c \in [1..n -> ConfigTargets] : \A i, j \in 1..n : c[i] = c[j] => i = j} :
              n \in 0..MaxTargets}

ChartRow(rank, title) == [rank |-> rank, title |-> title, artists |-> <<<<"x">>>>]

\* charts a fetch may return: empty, or one row
RunCharts(p) ==
    IF p = "melon"
    THEN {<<>>, <<ChartRow(1, <<"a">>)>>, <<ChartRow(3, <<"a">>)>>, <<ChartRow(7, <<"a">>)>>,
          <<ChartRow(3, <<"b">>)>>}
    ELSE {<<>>, <<ChartRow(3, <<"a">>)>>, <<ChartRow(3, <<"b">>)>>}

\* what a chart fetch does: raise_for_status raises, or the rows are returned
FetchOutcomes(p) ==
    {[raised |-> TRUE, items |-> <<>>]} \cup {[raised |-> FALSE, items |-> c] : c \in RunCharts(p)}

\* what a history file may hold before the first run
FoundFiles ==
    { NoFile, CorruptFile, JsonList,
      JsonObject([k \in {<<"a", "@", "@", "x">>} |-> JStr]),
      JsonObject([k \in {<<"o", "@", "@", "x">>} |-> JInt(3)]) }

ViewCount == 5

\* the keys under which a history file holds a real rank
RealKeys(file) ==
    IF file.kind = "object"
    THEN {k \in DOMAIN file.map : file.map[k].t = "int" /\ file.map[k].n >= 1}
    ELSE {}

Init ==
    /\ pc = "idle"
    /\ arg = None
    /\ ret = None
    /\ NoRun
    /\ files \in {f \in [Stores -> FoundFiles] :
                     f["youtube"] = NoFile /\ f["genie"] \in {NoFile, CorruptFile}}
    /\ startFiles = files
    /\ lastRun = [p \in Platforms |-> [byTarget |-> <<>>, byKey |-> <<>>]]
    /\ story = <<>>
    /\ everFound = RealKeys(files["melon"])

\* main, lines 63-74 and 91-96: a run starts and reads the configuration
StartRun ==
    /\ pc = "idle"
    /\ \E cfg \in Configs : targets' = cfg
    /\ pc' = "fetch_melon"
    /\ UNCHANGED <<pureVars, files, startFiles, melon_items, genie_items, yt_rows,
                   prev_map, had_file, curr_map, idx, results, fetched, saved,
                   posted, lastRun, story, everFound, raised>>

\* main, line 77: get_melon_hot100_items() if melon_targets else []
FetchMelon ==
    /\ pc = "fetch_melon"
    /\ IF Len(PlatformTargets(targets, "melon")) > 0
       THEN /\ fetched' = [fetched EXCEPT !["melon"] = @ + 1]
            /\ \E out \in FetchOutcomes("melon") :
                   /\ pc' = IF out.raised THEN "fetch_raised" ELSE "fetch_genie"
                   /\ raised' = IF out.raised THEN "melon" ELSE raised
                   /\ melon_items' = out.items
       ELSE pc' = "fetch_genie" /\ UNCHANGED <<fetched, melon_items, raised>>
    /\ UNCHANGED <<pureVars, files, startFiles, targets, genie_items, yt_rows,
                   prev_map, had_file, curr_map, idx, results, saved, posted,
                   lastRun, story, everFound>>

\* a mutant of the genie fetch: the exception is swallowed and the run goes on
FetchGenieCaught ==
    /\ pc = "fetch_genie"
    /\ IF Len(PlatformTargets(targets, "genie")) > 0
       THEN /\ fetched' = [fetched EXCEPT !["genie"] = @ + 1]
            /\ \E out \in FetchOutcomes("genie") :
                   /\ pc' = "fetch_youtube"
                   /\ raised' = IF out.raised THEN "genie" ELSE raised
                   /\ genie_items' = out.items
       ELSE pc' = "fetch_youtube" /\ UNCHANGED <<fetched, genie_items, raised>>
    /\ UNCHANGED <<pureVars, files, startFiles, targets, melon_items, yt_rows,
                   prev_map, had_file, curr_map, idx, results, saved, posted,
                   lastRun, story, everFound>>

\* main, line 78: get_genie_top200_items(max_page=4) if genie_targets else []
FetchGenie ==
    /\ pc = "fetch_genie"
    /\ IF Len(PlatformTargets(targets, "genie")) > 0
       THEN /\ fetched' = [fetched EXCEPT !["genie"] = @ + 1]
            /\ \E out \in FetchOutcomes("genie") :
                   /\ pc' = IF out.raised THEN "fetch_raised" ELSE "fetch_youtube"
                   /\ raised' = IF out.raised THEN "genie" ELSE raised
                   /\ genie_items' = out.items
       ELSE pc' = "fetch_youtube" /\ UNCHANGED <<fetched, genie_items, raised>>
    /\ UNCHANGED <<pureVars, files, startFiles, targets, melon_items, yt_rows,
                   prev_map, had_file, curr_map, idx, results, saved, posted,
                   lastRun, story, everFound>>

\* main, lines 81-82: get_youtube_views_for_targets(targets); without a target
\* that has a youtube field no request is made
FetchYoutube ==
    /\ pc = "fetch_youtube"
    /\ LET keys == {Key(targets[i]) : i \in {j \in 1..Len(targets) : targets[j].youtube}}
       IN  IF keys # {}
           THEN \E out \in {"views", "raise"} :
                    /\ pc' = IF out = "raise" THEN "fetch_raised" ELSE "load"
                    /\ raised' = IF out = "raise" THEN "youtube" ELSE raised
                    /\ yt_rows' = IF out = "views" THEN keys ELSE {}
           ELSE pc' = "load" /\ yt_rows' = {} /\ UNCHANGED raised
    /\ UNCHANGED <<pureVars, files, startFiles, targets, melon_items, genie_items,
                   prev_map, had_file, curr_map, idx, results, fetched, saved,
                   posted, lastRun, story, everFound>>

\* main, lines 85-88: _load_prev and HISTORY_FILES[...].exists() of both platforms
LoadHistory ==
    /\ pc = "load"
    /\ prev_map' = [p \in Platforms |-> load_prev(files[p])]
    /\ had_file' = [p \in Platforms |-> Exists(files[p])]
    /\ idx' = 1
    /\ pc' = "loop"
    /\ UNCHANGED <<pureVars, files, startFiles, targets, melon_items, genie_items,
                   yt_rows, curr_map, results, fetched, saved, posted, lastRun, story, everFound, raised>>

\* main, lines 98-186: one iteration of the loop over targets
ProcessTarget ==
    /\ pc = "loop"
    /\ idx <= Len(targets)
    /\ LET t == targets[idx]
           key == Key(t)
           m == IF "melon" \in t.platforms
                THEN PlatformBlock("melon", t, melon_items, prev_map["melon"], had_file["melon"])
                ELSE NotDeclared
           g == IF "genie" \in t.platforms
                THEN PlatformBlock("genie", t, genie_items, prev_map["genie"], had_file["genie"])
                ELSE NotDeclared
           melon_curr == IF "melon" \in t.platforms
                         THEN (key :> EncodeRank(m.rank)) @@ curr_map["melon"]
                         ELSE curr_map["melon"]
           genie_curr == IF "genie" \in t.platforms /\ ~m.raised
                         THEN (key :> EncodeRank(g.rank)) @@ curr_map["genie"]
                         ELSE curr_map["genie"]
           yt_curr == IF key \in yt_rows /\ ~m.raised /\ ~g.raised
                      THEN (key :> JInt(ViewCount)) @@ curr_map["youtube"]
                      ELSE curr_map["youtube"]
       IN  /\ curr_map' = [melon |-> melon_curr, genie |-> genie_curr, youtube |-> yt_curr]
           /\ IF m.raised \/ g.raised
              THEN pc' = "crashed" /\ raised' = "target" /\ UNCHANGED <<idx, results>>
              ELSE /\ pc' = "loop"
                   /\ UNCHANGED raised
                   /\ idx' = idx + 1
                   /\ results' = Append(results, [target |-> t, melon |-> m, genie |-> g])
    /\ UNCHANGED <<pureVars, files, startFiles, targets, melon_items, genie_items,
                   yt_rows, prev_map, had_file, fetched, saved, posted, lastRun, story, everFound>>

\* whether main saves the store: melon_targets / genie_targets / yt_curr_map
SavesStore(p) ==
    IF p = "youtube" THEN curr_map["youtube"] # EmptyMap
    ELSE Len(PlatformTargets(targets, p)) > 0

\* a mutant of the saves: they run as soon as the loop is entered
SaveHistoryEarly ==
    /\ pc = "loop"
    /\ idx <= Len(targets)
    /\ files' = [p \in Stores |->
                    IF SavesStore(p) THEN save_curr(files[p], curr_map[p]) ELSE files[p]]
    /\ saved' = [p \in Stores |-> IF SavesStore(p) THEN saved[p] + 1 ELSE saved[p]]
    /\ pc' = "post"
    /\ UNCHANGED <<pureVars, startFiles, targets, melon_items, genie_items, yt_rows,
                   prev_map, had_file, curr_map, idx, results, fetched, posted,
                   lastRun, story, everFound, raised>>

\* main, lines 189-194: the history of every applicable store is saved
SaveHistory ==
    /\ pc = "loop"
    /\ idx > Len(targets)
    /\ files' = [p \in Stores |->
                    IF SavesStore(p) THEN save_curr(files[p], curr_map[p]) ELSE files[p]]
    /\ saved' = [p \in Stores |-> IF SavesStore(p) THEN saved[p] + 1 ELSE saved[p]]
    /\ everFound' = everFound \cup RealKeys(files'["melon"])
    /\ pc' = "post"
    /\ UNCHANGED <<pureVars, startFiles, targets, melon_items, genie_items, yt_rows,
                   prev_map, had_file, curr_map, idx, results, fetched, posted,
                   lastRun, story, raised>>

\* the matcher results of the run for platform p: by target, and by key
\* (of the targets that share a key, the last in configuration order)
RunRanksOf(p) ==
    LET mine == {i \in 1..Len(results) : p \in results[i].target.platforms}
        last(k) == CHOOSE i \in mine : /\ Key(results[i].target) = k
                                        /\ \A j \in mine : Key(results[j].target) = k => j <= i
    IN  [byTarget |-> [t \in {results[i].target : i \in mine} |->
                          results[CHOOSE i \in mine : results[i].target = t][p].rank],
         byKey |-> [k \in {Key(results[i].target) : i \in mine} |-> results[last(k)][p].rank]]

\* the target the story follows, and the matcher results of the scenario
Tracked == Song(<<"a">>, <<"x">>, <<>>, {"melon", "genie"}, FALSE)

ScenarioRanks == <<Some(3), Some(1), None, Some(7)>>

\* the story after this run: it starts with a run without a melon history
\* file and goes on while the tracked target, alone with its key on melon,
\* gets the matcher results of the scenario in consecutive completed runs
NextStory ==
    LET mine == SelectSeq(results, LAMBDA r : r.target = Tracked)
        alone == \A i \in 1..Len(results) :
                     ("melon" \in results[i].target.platforms /\ Key(results[i].target) = Key(Tracked))
                         => results[i].target = Tracked
        n == IF startFiles["melon"] = NoFile THEN 0 ELSE Len(story)
    IN  IF Len(mine) > 0 /\ alone /\ n < Len(ScenarioRanks)
           /\ (n > 0 \/ startFiles["melon"] = NoFile)
           /\ mine[1]["melon"].rank = ScenarioRanks[n + 1]
        THEN Append(SubSeq(story, 1, n), mine[1]["melon"].label)
        ELSE <<>>

\* a mutant of the post: the exception of slack_post is not caught
SlackPostUncaught ==
    /\ pc = "post"
    /\ \E ok \in BOOLEAN :
           /\ posted' = IF ok THEN "ok" ELSE "failed"
           /\ pc' = IF ok THEN "done" ELSE "crashed"
           /\ raised' = IF ok THEN raised ELSE "slack"
    /\ lastRun' = [p \in Platforms |-> RunRanksOf(p)]
    /\ story' = NextStory
    /\ UNCHANGED <<pureVars, files, startFiles, targets, melon_items, genie_items,
                   yt_rows, prev_map, had_file, curr_map, idx, results, fetched, saved,
                   everFound>>

\* main, lines 196-224: the message is posted; a failure of slack_post is
\* caught and the run completes
SlackPost ==
    /\ pc = "post"
    /\ \E ok \in BOOLEAN : posted' = IF ok THEN "ok" ELSE "failed"
    /\ pc' = "done"
    /\ lastRun' = [p \in Platforms |-> RunRanksOf(p)]
    /\ story' = NextStory
    /\ UNCHANGED <<pureVars, files, startFiles, targets, melon_items, genie_items,
                   yt_rows, prev_map, had_file, curr_map, idx, results, fetched, saved,
                   everFound, raised>>

\* main returns, or an exception ends the process: only the files remain
Exit ==
    /\ pc \in {"done", "fetch_raised", "crashed"}
    /\ pc' = "idle"
    /\ targets' = <<>>
    /\ melon_items' = <<>>
    /\ genie_items' = <<>>
    /\ yt_rows' = {}
    /\ prev_map' = [p \in Platforms |-> JsonObject(EmptyMap)]
    /\ had_file' = [p \in Platforms |-> FALSE]
    /\ curr_map' = [p \in Stores |-> EmptyMap]
    /\ idx' = 0
    /\ results' = <<>>
    /\ fetched' = [p \in Platforms |-> 0]
    /\ saved' = [p \in Stores |-> 0]
    /\ posted' = "no"
    /\ raised' = "none"
    /\ startFiles' = files
    /\ UNCHANGED <<pureVars, files, lastRun, story, everFound>>

Next ==
    \/ StartRun
    \/ FetchMelon
    \/ FetchGenie
    \/ FetchYoutube
    \/ LoadHistory
    \/ ProcessTarget
    \/ SaveHistory
    \/ SlackPost
    \/ Exit

Spec == Init /\ [][Next]_vars

(***************************************************************************)
(* notifier.notify_platform_ranks: one call over the history file          *)
(***************************************************************************)
\* notifier._result_key
notifier_result_key(title, artist) == Strip(Lower(title \o <<"@", "@">> \o artist))

\* notifier._load_prev
notifier_load_prev(file) ==
    IF file.kind = "nofile" THEN JsonObject(EmptyMap)
    ELSE IF file.kind = "text" THEN JsonObject(EmptyMap)
    ELSE file

\* notifier._save_curr
notifier_save_curr(file, mapping) == JsonObject(mapping)

\* notify_platform_ranks: the key of one entry of results
\* (artists, or else the single artist; the first of them, stripped)
ItemKey(it) ==
    LET title_ == Strip(it.title)
        artist_list == IF Len(it.artists) > 0 THEN it.artists ELSE <<Strip(it.artist)>>
        artist_ == Strip(artist_list[1])
    IN  notifier_result_key(title_, artist_)

\* notify_platform_ranks: curr_map after the first i entries of results
RECURSIVE NotifyCurrMap(_, _)
NotifyCurrMap(rs, i) ==
    IF i = 0 THEN EmptyMap
    ELSE (ItemKey(rs[i]) :> (IF IsNone(rs[i].rank) THEN JInt(0 - 1) ELSE JInt(Val(rs[i].rank))))
             @@ NotifyCurrMap(rs, i - 1)

\* notify_platform_ranks raises before the post: prev_map.get on a loaded
\* list (AttributeError), or _delta_emoji comparing a rank with a stored
\* string (TypeError)
RowsRaise(loaded, rs) ==
    IF loaded.kind # "object" THEN Len(rs) > 0
    ELSE \E i \in 1..Len(rs) :
             /\ ItemKey(rs[i]) \in DOMAIN loaded.map
             /\ loaded.map[ItemKey(rs[i])].t = "str"
             /\ ~IsNone(rs[i].rank)

MaxResults == 2

NotifyItem(title, artists, artist, rank) ==
    [title |-> title, artists |-> artists, artist |-> artist, rank |-> rank]

\* entries of results: with an artists list, or with a single artist
NotifyItems ==
    { NotifyItem(<<"a">>, <<<<"x">>>>, <<>>, Some(3)),
      NotifyItem(<<" ", "A">>, <<>>, <<"x", " ">>, None),
      NotifyItem(<<"b">>, <<>>, <<>>, Some(1)) }

NotifyResults == UNION {[1..n -> NotifyItems] : n \in 0..MaxResults}

InitNotify ==
    /\ pc = "call"
    /\ arg \in [platform : Platforms, results : NotifyResults, save_history : BOOLEAN]
    /\ ret = None
    /\ NoRun
    /\ files \in {f \in [Stores -> FoundFiles] :
                     \A q \in Stores : q # arg.platform => f[q] = NoFile}
    /\ startFiles = files
    /\ lastRun = [p \in Platforms |-> [byTarget |-> <<>>, byKey |-> <<>>]]
    /\ story = <<>>
    /\ everFound = {}

\* notifier.notify_platform_ranks: the rows are built from the loaded history,
\* slack_post is called, and only then the history is saved
NotifyCall ==
    /\ pc = "call"
    /\ LET p == arg.platform
           curr == NotifyCurrMap(arg.results, Len(arg.results))
           loaded == notifier_load_prev(files[p])
       IN  IF RowsRaise(loaded, arg.results)
           THEN pc' = "raised" /\ UNCHANGED <<files, posted>>
           ELSE \E ok \in BOOLEAN :
                    IF ok
                    THEN /\ posted' = "ok"
                         /\ files' = IF arg.save_history
                                     THEN [files EXCEPT ![p] = notifier_save_curr(files[p], curr)]
                                     ELSE files
                         /\ pc' = "returned"
                    ELSE /\ posted' = "failed"
                         /\ pc' = "raised"
                         /\ UNCHANGED files
    /\ UNCHANGED <<pureVars, startFiles, targets, melon_items, genie_items, yt_rows,
                   prev_map, had_file, curr_map, idx, results, fetched, saved,
                   lastRun, story, everFound, raised>>

NextNotify == NotifyCall

SpecNotify == InitNotify /\ [][NextNotify]_vars

(***************************************************************************)
(* Properties of the classifier                                            *)
(***************************************************************************)
\* C1: change_emoji returns exactly one of the six movements and follows the
\* table: curr absent -> ABSENT; prev absent and curr present -> FIRST_ENTRY
\* without a history file and REENTRY with one; both present -> RISEN when
\* curr < prev, FALLEN when curr > prev, UNCHANGED when they are equal.
C1_ClassifierTable ==
    pc = "done" =>
        /\ ret \in Movements
        /\ IsNone(arg.curr) => ret = "ABSENT"
        /\ (IsNone(arg.prev) /\ ~IsNone(arg.curr) /\ ~arg.had_history_file)
               => ret = "FIRST_ENTRY"
        /\ (IsNone(arg.prev) /\ ~IsNone(arg.curr) /\ arg.had_history_file)
               => ret = "REENTRY"
        /\ (~IsNone(arg.prev) /\ ~IsNone(arg.curr)) =>
               /\ Val(arg.curr) < Val(arg.prev) => ret = "RISEN"
               /\ Val(arg.curr) > Val(arg.prev) => ret = "FALLEN"
               /\ Val(arg.curr) = Val(arg.prev) => ret = "UNCHANGED"

C1_Witness ==
    /\ pc = "done"
    /\ arg.prev = Some(5)
    /\ arg.curr = Some(MaxRank)
    /\ ret = "FALLEN"

(***************************************************************************)
(* Properties of the normalizer                                            *)
(***************************************************************************)
\* C3: the normalizer is idempotent, norm(norm(text)) = norm(text), for
\* common.norm and for the copies inside the matchers.
C3_NormIdempotent ==
    pc = "done" =>
        /\ ret.common2 = ret.common
        /\ ret.melon2 = ret.melon
        /\ ret.genie2 = ret.genie

(***************************************************************************)
(* Properties of the matcher; the hits are those of the matcher contract   *)
(***************************************************************************)
\* candidate title set: {title} \cup titleAliases, normalized, empty strings dropped
CandidateTitles(title, title_aliases) ==
    {norm(x) : x \in Range(<<title>> \o title_aliases)} \ {<<>>}

\* candidate artist set: {artist} \cup artistAliases, normalized, empty strings dropped
CandidateArtists(artist, artist_aliases) ==
    {norm(x) : x \in Range(<<artist>> \o artist_aliases)} \ {<<>>}

TitleHit(row, cands) ==
    \E c \in cands : Contains(norm(row.title), c) \/ Contains(c, norm(row.title))

ArtistHit(row, cands) ==
    \/ cands = {}
    \/ \E c \in cands : \E k \in 1..Len(row.artists) :
           Contains(norm(row.artists[k]), c) \/ Contains(c, norm(row.artists[k]))

Qualifies(row, a) ==
    /\ TitleHit(row, CandidateTitles(a.title, a.title_aliases))
    /\ ArtistHit(row, CandidateArtists(a.artist, a.artist_aliases))

\* the rank of the first qualifying row in input order, None when there is none
FirstQualifying(a) ==
    LET hits == {i \in 1..Len(a.items) : Qualifies(a.items[i], a)}
    IN  IF hits = {} THEN None
        ELSE Some(a.items[CHOOSE i \in hits : \A j \in hits : i <= j].rank)

\* every candidate title and artist is empty or keeps text after normalization
NoBlankCandidate(a) ==
    \A x \in Range(<<a.title>> \o a.title_aliases) \cup Range(<<a.artist>> \o a.artist_aliases) :
        Truthy(x) => Truthy(norm(x))

\* C2: the matcher returns the rank of the first row, in input order, that is
\* a title hit and an artist hit, and None exactly when no row qualifies.
C2_FirstQualifyingRow ==
    pc = "done" =>
        /\ ret.melon = FirstQualifying(arg)
        /\ ret.genie = FirstQualifying(arg)

\* the statement of C2 for targets without a whitespace-only candidate (holds)
FirstQualifyingRowWithoutBlanks ==
    (pc = "done" /\ NoBlankCandidate(arg)) =>
        /\ ret.melon = FirstQualifying(arg)
        /\ ret.genie = FirstQualifying(arg)

\* C4: a target whose title and title aliases all normalize to the empty
\* string never matches: the matcher returns None for every chart.
C4_BlankTitleNeverMatches ==
    (pc = "done" /\ CandidateTitles(arg.title, arg.title_aliases) = {}) =>
        /\ ret.melon = None
        /\ ret.genie = None

\* C5: when the artist and all artist aliases are empty or normalize to the
\* empty string, artist filtering is disabled: every row that is a title hit
\* qualifies whatever its artists are, so the matcher returns that row or an
\* earlier one.
C5_BlankArtistDisablesFilter ==
    (pc = "done" /\ CandidateArtists(arg.artist, arg.artist_aliases) = {}) =>
        \A i \in 1..Len(arg.items) :
            TitleHit(arg.items[i], CandidateTitles(arg.title, arg.title_aliases)) =>
                /\ ~IsNone(ret.melon) /\ Val(ret.melon) <= arg.items[i].rank
                /\ ~IsNone(ret.genie) /\ Val(ret.genie) <= arg.items[i].rank

(***************************************************************************)
(* Properties of the run                                                   *)
(***************************************************************************)
\* some configured target of the run declares platform p
Declared(p) == \E i \in 1..Len(targets) : p \in targets[i].platforms

ItemsOf(p) == IF p = "melon" THEN melon_items ELSE genie_items

\* the file holds the expected structure, an object of integers
ExpectedStructure(file) ==
    /\ file.kind = "object"
    /\ \A k \in DOMAIN file.map : file.map[k].t = "int"

\* C6: _load_prev never raises and always returns a mapping of integers, the
\* empty mapping without a file and whenever the content is not an object of
\* integers, so the lookup of the previous rank and the classification never
\* fail because of the content of the file.
C6_LoadAlwaysReturnsMapping ==
    /\ pc # "crashed"
    /\ pc \in {"loop", "post", "done"} =>
           \A p \in Platforms :
               /\ ExpectedStructure(prev_map[p])
               /\ ~ExpectedStructure(startFiles[p]) => prev_map[p] = JsonObject(EmptyMap)

\* the mapping a run over these targets and charts saves for platform p
SavedMapping(p) ==
    LET mine == {i \in 1..Len(targets) : p \in targets[i].platforms}
        last(k) == CHOOSE i \in mine : /\ Key(targets[i]) = k
                                        /\ \A j \in mine : Key(targets[j]) = k => j <= i
    IN  [k \in {Key(targets[i]) : i \in mine} |->
            LET r == FindRank(p, ItemsOf(p), targets[last(k)])
            IN  IF IsNone(r) THEN JInt(0 - 1) ELSE JInt(Val(r))]

\* C7: a run that starts with a corrupt history file of platform p gives the
\* movements and the saved mapping of a run that starts without the file.
C7_CorruptLikeNoHistory ==
    \A p \in Platforms :
        startFiles[p] = CorruptFile =>
            /\ \A i \in 1..Len(results) :
                   p \in results[i].target.platforms =>
                       results[i][p].label =
                           PlatformBlock(p, results[i].target, ItemsOf(p),
                                         load_prev(NoFile), Exists(NoFile)).label
            /\ (pc \in {"post", "done"} /\ saved[p] = 1) =>
                   files[p] = JsonObject(SavedMapping(p))

\* C8: after a run that saves platform p the file holds exactly the keys of
\* the targets that declared p in that run; no other key of the prior
\* history survives.
C8_SavedKeysAreDeclaredKeys ==
    \A p \in Platforms :
        (pc \in {"post", "done"} /\ saved[p] = 1) =>
            /\ files[p].kind = "object"
            /\ DOMAIN files[p].map =
                   {Key(targets[i]) : i \in {j \in 1..Len(targets) : p \in targets[j].platforms}}

C8_Witness ==
    /\ pc = "done"
    /\ saved["genie"] = 1
    /\ startFiles["genie"].kind = "object"
    /\ \E k \in DOMAIN startFiles["genie"].map : k \notin DOMAIN files["genie"].map
    /\ \E k \in DOMAIN startFiles["genie"].map : k \in DOMAIN files["genie"].map

\* the run is over: main returned, or an exception ended it
RunOver == pc \in {"done", "fetch_raised", "crashed"}

\* C9 as stated: in a run, the chart of p is fetched and the history of p is
\* saved exactly once if some target declares p; otherwise the chart is not
\* fetched and the file is left unchanged.
C9_FetchedAndSavedOnce ==
    RunOver =>
        \A p \in Platforms :
            IF Declared(p)
            THEN fetched[p] = 1 /\ saved[p] = 1
            ELSE fetched[p] = 0 /\ saved[p] = 0 /\ files[p] = startFiles[p]

\* C9 amended: a run that completes has fetched and saved p exactly once if
\* some target declares p; every run, also one that an exception ends,
\* fetches and saves p at most once, and when no target declares p it neither
\* fetches p nor touches the file of p.
C9_FetchedAndSavedOnceWhenCompleted ==
    \A p \in Platforms :
        /\ fetched[p] <= 1
        /\ saved[p] <= 1
        /\ saved[p] <= fetched[p]
        /\ ~Declared(p) => (fetched[p] = 0 /\ saved[p] = 0 /\ files[p] = startFiles[p])
        /\ (pc = "done" /\ Declared(p)) => (fetched[p] = 1 /\ saved[p] = 1)

C9_Witness ==
    /\ pc = "done"
    /\ Declared("melon")
    /\ fetched["melon"] = 1
    /\ saved["melon"] = 1
    /\ ~Declared("genie")
    /\ files["genie"] = CorruptFile

\* C10 as stated: the previous rank passed to the classifier equals the rank
\* the matcher returned for the same target in the previous completed run.
C10_PrevIsEarlierRankOfTarget ==
    pc \in {"loop", "post"} =>
        \A i \in 1..Len(results) : \A p \in Platforms :
            (/\ p \in results[i].target.platforms
             /\ results[i].target \in DOMAIN lastRun[p].byTarget)
                => results[i][p].prev = lastRun[p].byTarget[results[i].target]

ScenarioLabels == <<"FIRST_ENTRY", "RISEN", "ABSENT", "REENTRY">>

\* C10 amended: the previous rank passed to the classifier equals the rank
\* the previous completed run recorded for the key of the target, which is
\* the matcher result of the last target with that key that declared the
\* platform (a stored -1 decoded to absent); so for a target alone with its
\* key, starting without a history file, the matcher results 3, 1, absent, 7
\* are classified FIRST_ENTRY, RISEN, ABSENT, REENTRY.
C10_PrevIsEarlierRankOfKey ==
    /\ pc \in {"loop", "post"} =>
           \A i \in 1..Len(results) : \A p \in Platforms :
               (/\ p \in results[i].target.platforms
                /\ Key(results[i].target) \in DOMAIN lastRun[p].byKey)
                   => results[i][p].prev = lastRun[p].byKey[Key(results[i].target)]
    /\ \A n \in 1..Len(story) : story[n] = ScenarioLabels[n]

C10_Witness ==
    /\ pc = "done"
    /\ story = ScenarioLabels
    /\ \E i \in 1..Len(results) :
           /\ results[i].target = Tracked
           /\ results[i]["melon"].prev = None
           /\ results[i]["melon"].rank = Some(7)

\* C11: when the chart of platform p has no rows, the matcher returns absent
\* for every target; every target that declares p is classified ABSENT and
\* the mapping saved for p records -1 under its key.
C11_EmptyChartIsAbsent ==
    \A p \in Platforms :
        ItemsOf(p) = <<>> =>
            /\ \A i \in 1..Len(results) :
                   p \in results[i].target.platforms =>
                       /\ results[i][p].rank = None
                       /\ results[i][p].label = "ABSENT"
            /\ pc \in {"post", "done"} =>
                   \A i \in 1..Len(targets) :
                       p \in targets[i].platforms =>
                           /\ files[p].kind = "object"
                           /\ Key(targets[i]) \in DOMAIN files[p].map
                           /\ files[p].map[Key(targets[i])] = JInt(0 - 1)

C11_Witness ==
    /\ pc = "done"
    /\ fetched["melon"] = 1
    /\ melon_items = <<>>
    /\ \E i \in 1..Len(results) :
           /\ "melon" \in results[i].target.platforms
           /\ results[i]["melon"].prev = Some(3)
           /\ results[i]["melon"].label = "ABSENT"
           /\ files["melon"].map[Key(results[i].target)] = JInt(0 - 1)

\* a step that classifies a target on platform p, and a step that saves p
ClassifyStep(p) ==
    /\ Len(results') = Len(results) + 1
    /\ p \in results'[Len(results')].target.platforms

SaveStep(p) == saved'[p] = saved[p] + 1

\* C12: within a run, every classify call for platform p comes after the load
\* of p's history and the reading of its file-existed flag and before the save
\* of p, and the save of p comes after all classify calls of the run.
C12_LoadClassifySaveOrder ==
    [][\A p \in Platforms :
           /\ ClassifyStep(p) =>
                  /\ prev_map[p] = load_prev(files[p])
                  /\ had_file[p] = Exists(files[p])
                  /\ saved[p] = 0
                  /\ files[p] = startFiles[p]
           /\ SaveStep(p) =>
                  /\ Len(results) = Len(targets)
                  /\ results' = results
                  /\ \A i \in 1..Len(targets) : results[i].target = targets[i]]_vars

C12_Witness ==
    /\ pc = "done"
    /\ Len(targets) = 2
    /\ Len(results) = 2
    /\ \A i \in 1..2 : "melon" \in results[i].target.platforms
    /\ startFiles["melon"].kind = "object"
    /\ had_file["melon"]
    /\ saved["melon"] = 1
    /\ files["melon"] # startFiles["melon"]

\* C13: a target is labelled REENTRY on melon only when it is a returning
\* song: an earlier run recorded a real rank for its key, and it dropped off.
C13_ReentryOnlyForReturningSong ==
    pc = "loop" =>
        \A i \in 1..Len(results) :
            results[i]["melon"].label = "REENTRY" =>
                Key(results[i].target) \in everFound

\* the same for a song that every run so far has tracked and never found
C13_TrackedNeverFoundIsNotReentry ==
    (/\ pc = "loop"
     /\ startFiles["melon"].kind = "object"
     /\ DOMAIN startFiles["melon"].map = {Key(Tracked)}
     /\ startFiles["melon"].map[Key(Tracked)] = JInt(0 - 1)
     /\ everFound = {})
        => \A i \in 1..Len(results) : results[i]["melon"].label # "REENTRY"

(***************************************************************************)
(* Properties of the two copies of the matcher                             *)
(***************************************************************************)
\* every text of a matcher call: of the target, its aliases and the rows
TextsOfCall(a) ==
    {a.title, a.artist} \cup Range(a.title_aliases) \cup Range(a.artist_aliases)
        \cup {a.items[i].title : i \in 1..Len(a.items)}
        \cup UNION {Range(a.items[i].artists) : i \in 1..Len(a.items)}

\* C14: the melon and genie copies of find_rank_by_title_artist_with_alias
\* return the same rank, or both absent, for every chart, title, artist and
\* alias lists, and the normalizer of each equals common.norm on every text.
C14_MelonGenieEquivalent ==
    pc = "done" =>
        /\ ret.melon = ret.genie
        /\ \A s \in TextsOfCall(arg) : melon_norm(s) = norm(s) /\ genie_norm(s) = norm(s)

C14_Witness ==
    /\ pc = "done"
    /\ Len(arg.items) = 2
    /\ arg.title_aliases # <<>>
    /\ arg.artist = <<"y">>
    /\ ret.melon = Some(2)
    /\ ret.genie = Some(2)

\* the rows of the chart that match the primary title and artist of the call,
\* both of them given: the rows the matcher finds when the aliases are left out
PrimaryRows(a) ==
    IF Truthy(norm(a.title)) /\ Truthy(norm(a.artist))
    THEN {i \in 1..Len(a.items) :
             ~IsNone(find_melon_rank(<<a.items[i]>>, a.title, a.artist, <<>>, <<>>))}
    ELSE {}

\* C15: when some row matches the primary title and artist, the rank returned
\* is that of a row matching the primary title and artist; rows that match
\* through an alias only are used when no row matches the primary ones.
C15_PrimaryBeforeAliases ==
    (pc = "done" /\ PrimaryRows(arg) # {}) =>
        /\ \E i \in PrimaryRows(arg) : ret.melon = Some(arg.items[i].rank)
        /\ \E i \in PrimaryRows(arg) : ret.genie = Some(arg.items[i].rank)

\* C16: called with empty alias lists, find_rank_by_title_artist_with_alias
\* returns what find_rank_by_title_artist returns, for every chart, title and
\* artist, an empty title and a whitespace-only artist included.
C16_WithAliasExtendsPlain ==
    (pc = "done" /\ arg.title_aliases = <<>> /\ arg.artist_aliases = <<>>) =>
        /\ ret.melon = ret.melon_plain
        /\ ret.genie = ret.genie_plain

(***************************************************************************)
(* Properties of notify_platform_ranks                                     *)
(***************************************************************************)
\* the mapping of the current results: per key the rank of the last entry
\* with that key, an absent rank as -1
ResultsMapping(rs) ==
    LET last(k) == CHOOSE i \in 1..Len(rs) :
                       /\ ItemKey(rs[i]) = k
                       /\ \A j \in 1..Len(rs) : ItemKey(rs[j]) = k => j <= i
    IN  [k \in {ItemKey(rs[i]) : i \in 1..Len(rs)} |->
            IF rs[last(k)].rank = None THEN JInt(0 - 1) ELSE JInt(rs[last(k)].rank[1])]

\* C17 as stated: every call with save_history=True leaves the history file
\* of the platform holding the mapping of the current results, a call with
\* save_history=False leaves it unchanged.
C17_EveryCallSaves ==
    pc \in {"returned", "raised"} =>
        IF arg.save_history
        THEN files[arg.platform] = JsonObject(ResultsMapping(arg.results))
        ELSE files[arg.platform] = startFiles[arg.platform]

\* C17 amended: a call with save_history=True that returns leaves the history
\* file of the platform holding the mapping of the current results; a call
\* that raises (slack_post failed, or the rows could not be built from the
\* file) and a call with save_history=False leave every file unchanged.
C17_ReturnedCallSaves ==
    /\ (pc = "returned" /\ arg.save_history) =>
           /\ files[arg.platform] = JsonObject(ResultsMapping(arg.results))
           /\ \A q \in Stores : q # arg.platform => files[q] = startFiles[q]
           /\ posted = "ok"
    /\ (pc = "returned" /\ ~arg.save_history) => files = startFiles
    /\ pc = "raised" => files = startFiles

C17_Witness ==
    /\ pc = "returned"
    /\ arg.save_history
    /\ Len(arg.results) = 2
    /\ arg.results[1].rank = Some(3)
    /\ arg.results[2].rank = None
    /\ ItemKey(arg.results[1]) = ItemKey(arg.results[2])
    /\ startFiles[arg.platform].kind = "object"
    /\ files[arg.platform] = JsonObject((<<"a", "@", "@", "x">> :> JInt(0 - 1)))

(***************************************************************************)
(* Properties of the run: first entries, aborted runs, failed posts        *)
(***************************************************************************)
\* C18: FIRST_ENTRY is given on platform p only in a run that started
\* without a history file of p; a saved history file stays, so once a run has
\* saved p no later run gives FIRST_ENTRY on p, and a target that is new to
\* the configuration is labelled REENTRY on its first appearance.
C18_FirstEntryOnlyWithoutFile ==
    /\ [](\A p \in Platforms :
              /\ \A i \in 1..Len(results) :
                     results[i][p].label = "FIRST_ENTRY" => startFiles[p] = NoFile
              /\ saved[p] >= 1 => files[p] # NoFile)
    /\ [][\A p \in Platforms :
              /\ files[p] # NoFile => files'[p] # NoFile
              /\ startFiles[p] # NoFile => startFiles'[p] # NoFile]_vars

C18_Witness ==
    /\ pc = "done"
    /\ lastRun["genie"].byKey # <<>>
    /\ startFiles["genie"].kind = "object"
    /\ \E i \in 1..Len(results) :
           /\ Key(results[i].target) \notin DOMAIN startFiles["genie"].map
           /\ results[i]["genie"].rank = Some(3)
           /\ results[i]["genie"].label = "REENTRY"

\* C19: when the melon or the genie chart fetch raises, the run ends there:
\* no history file of any platform is changed and nothing is posted.
C19_FetchRaiseAborts ==
    raised \in {"melon", "genie"} =>
        /\ pc = "fetch_raised"
        /\ files = startFiles
        /\ \A p \in Stores : saved[p] = 0
        /\ posted = "no"
        /\ results = <<>>

C19_Witness ==
    /\ raised = "genie"
    /\ fetched["melon"] = 1
    /\ melon_items # <<>>
    /\ fetched["genie"] = 1
    /\ files["melon"].kind = "object"
    /\ files = startFiles

\* C20: the history is saved before the post and a failure of slack_post is
\* caught: the run completes with the new mapping of every applicable
\* platform on disk, and these files are what the next run starts from.
C20_FailedPostKeepsHistory ==
    /\ [](posted = "failed" =>
              /\ pc = "done"
              /\ raised = "none"
              /\ \A p \in Platforms :
                     Declared(p) => saved[p] = 1 /\ files[p] = JsonObject(SavedMapping(p))
              /\ curr_map["youtube"] # EmptyMap =>
                     files["youtube"] = JsonObject(curr_map["youtube"]))
    /\ [][posted = "failed" => (files' = files /\ startFiles' = files)]_vars
    /\ [][posted' # "no" => (posted = "no" /\ files' = files /\ saved' = saved)]_vars

C20_Witness ==
    /\ pc = "done"
    /\ posted = "failed"
    /\ saved["melon"] = 1
    /\ files["melon"] # startFiles["melon"]
    /\ \E i \in 1..Len(results) : results[i]["melon"].label = "RISEN"

====
